---- MODULE Spec2Model ----
(***************************************************************************)
(* A model of the readers of src/remote_sensing.py:                        *)
(*   - the header deduplication of read_profiler_data_block,               *)
(*   - radar_profiler (block loop, pd.concat, sentinel masking),           *)
(*   - scintec_profiler and ARL_wind_profiler (fixed row count blocks),    *)
(*   - windcube_v1 (melt / merge reshaping, speed and direction).          *)
(*                                                                         *)
(* Text.  A line of a file is the list of its whitespace separated tokens  *)
(* (what str.split() returns); a token is the list of its '.'-separated    *)
(* parts, so 'SPD' is <<"SPD">> and 'SPD.1' is <<"SPD","1">>.  Two tokens   *)
(* are equal as Python strings exactly when their part lists are equal.    *)
(* A blank line and the '' that readline() returns at end of stream both   *)
(* split to <<>>; they differ only in the test  line == ''.                *)
(*                                                                         *)
(* Cells.  A cell of a DataFrame is Num(v), Str(token) or NaN.             *)
(***************************************************************************)
EXTENDS Integers, Sequences, FiniteSets, TLC

VARIABLES
    reader,      \* which reader this behaviour runs
    pc,          \* position inside the reader
    err,         \* the exception that left the reader ("" if none)
    raw,         \* dedup: the raw header tokens
    header,      \* dedup: the header after the deduplication step
    header2,     \* dedup: the deduplication step applied to its own output
    blocks,      \* the blocks the file was written from (never read by a reader)
    lines,       \* the file: a sequence of lines
    pos,         \* the stream cursor: index of the next line to read
    modes,       \* radar_profiler argument: None or Some(n)
    check_na,    \* radar_profiler argument: requested column names
    na_values,   \* radar_profiler argument: None, a scalar or a list
    dataframes,  \* the frames of the blocks read so far
    nread,       \* number of calls of the block reader that returned
    df,          \* the Table (None before pd.concat)
    stitched,    \* the Table as pd.concat returned it, before any masking
    notes,       \* the 'Note: column ...* not found' lines printed
    scan,        \* scintec_profiler: what the file header declared
    wide,        \* windcube_v1: the wide table read by pd.read_table
    altitudes,   \* windcube_v1: level -> height
    newdf        \* windcube_v1: the long table

dedupVars == <<raw, header, header2>>
fileVars == <<blocks, lines, pos>>
radarVars == <<modes, check_na, na_values, notes>>
frameVars == <<dataframes, nread, df, stitched>>
lidarVars == <<wide, altitudes, newdf>>
vars == <<reader, pc, err, dedupVars, fileVars, radarVars, frameVars, scan,
          lidarVars>>

None == <<>>
Some(x) == <<x>>

NaN == [nan |-> TRUE]
Num(v) == [n |-> v]
Str(t) == [s |-> t]

(***************************************************************************)
(* Generic helpers                                                         *)
(***************************************************************************)
SeqsUpTo(S, n) == UNION {[1..k -> S] : k \in 0..n}

Range(s) == {s[i] : i \in DOMAIN s}

RECURSIVE Flatten(_)
Flatten(ss) == IF ss = <<>> THEN <<>> ELSE Head(ss) \o Flatten(Tail(ss))

Max(a, b) == IF a >= b THEN a ELSE b

\* F applied to the value of x: x is evaluated once, however often F uses it
With(x, F(_)) == CHOOSE y \in {F(v) : v \in {x}} : TRUE

\* str(i) for the small naturals that occur as occurrence counts
Digits == <<"0", "1", "2", "3", "4", "5", "6", "7", "8", "9">>
str(i) == Digits[i + 1]

(***************************************************************************)
(* read_profiler_data_block, lines 116-120: the deduplication step         *)
(***************************************************************************)
\* list.count(col)
count(lst, col) == Cardinality({j \in DOMAIN lst : lst[j] = col})

\* header[:i].count(col), i being Python's 0-based index
countBefore(lst, i, col) == Cardinality({j \in 1..i : lst[j] = col})

\* the variant that leaves the first occurrence alone (pandas' own mangling)
DedupKeepFirst(hdr) ==
    [i \in DOMAIN hdr |->
        IF count(hdr, hdr[i]) > 1 /\ countBefore(hdr, i - 1, hdr[i]) > 0
        THEN Append(hdr[i], str(countBefore(hdr, i - 1, hdr[i])))
        ELSE hdr[i]]

\* col + '.' + str(header[:i].count(col)) if header.count(col) > 1 else col
Dedup(hdr) ==
    [i \in DOMAIN hdr |->
        IF count(hdr, hdr[i]) > 1
        THEN Append(hdr[i], str(countBefore(hdr, i - 1, hdr[i])))
        ELSE hdr[i]]

Unique(lst) == \A i, j \in DOMAIN lst : lst[i] = lst[j] => i = j

\* c.startswith(col + '.')
startswith_dot(c, col) ==
    /\ Len(c) > Len(col)
    /\ SubSeq(c, 1, Len(col)) = col

(***************************************************************************)
(* The text stream                                                         *)
(***************************************************************************)
\* the tokens of the line at cursor p; '' (no tokens) at end of stream
Toks(ls, p) == IF p > Len(ls) THEN <<>> ELSE ls[p]

\* readline() == '' : only at end of stream
AtEnd(ls, p) == p > Len(ls)

\* the cursor after one readline()
Adv(ls, p) == IF p > Len(ls) THEN p ELSE p + 1

\* the cursor after k readline() calls
AdvN(ls, p, k) == IF p + k > Len(ls) THEN Len(ls) + 1 ELSE p + k

\* numeric literals of the files, with their values
IntOf(part) ==
    CASE part = "00" -> 0
      [] part = "0" -> 0
      [] part = "01" -> 1
      [] part = "1" -> 1
      [] part = "2" -> 2
      [] part = "3" -> 3
      [] part = "4" -> 4
      [] part = "10" -> 10
      [] part = "17" -> 17
      [] part = "20" -> 20
      [] part = "30" -> 30
      [] part = "40" -> 40
      [] part = "80" -> 80
      [] part = "999999" -> 999999
      [] OTHER -> -1

IsInt(tok) == Len(tok) = 1 /\ IntOf(tok[1]) >= 0

\* float(token) succeeds: an integer literal, or one followed by '.0'
IsFloat(tok) ==
    \/ IsInt(tok)
    \/ Len(tok) = 2 /\ IntOf(tok[1]) >= 0 /\ tok[2] = "0"

\* float(token), for a token on which it succeeds
Float(tok) == IntOf(tok[1])

(***************************************************************************)
(* pd.DataFrame(data=block, columns=header, dtype=float)                    *)
(* A frame is [cols: sequence of names, rows: sequence of rows]; a row is  *)
(* [dt: timestamp, c: sequence of cells aligned with cols].                *)
(* Rows shorter than the longest row are padded with NaN; the longest row  *)
(* must be as long as the column list.                                     *)
(***************************************************************************)
RECURSIVE MaxLen(_)
MaxLen(rows) == IF rows = <<>> THEN 0 ELSE Max(Len(Head(rows)), MaxLen(Tail(rows)))

FrameOK(block, hdr) ==
    /\ block # <<>> => MaxLen(block) = Len(hdr)
    /\ \A r \in DOMAIN block : \A k \in DOMAIN block[r] : IsFloat(block[r][k])

FloatCells(toks, width) ==
    [k \in 1..width |-> IF k <= Len(toks) THEN Num(Float(toks[k])) ELSE NaN]

DataFrame(block, hdr, date_time) ==
    [cols |-> hdr,
     rows |-> [r \in DOMAIN block |->
                 [dt |-> date_time, c |-> FloatCells(block[r], Len(hdr))]]]

(***************************************************************************)
(* read_profiler_data_block, lines 102-128                                 *)
(***************************************************************************)
datatypes == {"WINDS", "RASS"}

\* pd.to_datetime('20{}{}{} {}{}{}'.format(Y,m,d,H,M,S)) as seconds
to_datetime(t) ==
    ((((IntOf(t[1][1]) * 12 + IntOf(t[2][1])) * 31 + IntOf(t[3][1])) * 24
        + IntOf(t[4][1])) * 60 + IntOf(t[5][1])) * 60 + IntOf(t[6][1])

\* the cursor at the first '$' line or at end of stream, from p on
RECURSIVE BlockEnd(_, _)
BlockEnd(ls, p) ==
    IF AtEnd(ls, p) \/ Toks(ls, p) = <<<<"$">>>> THEN p ELSE BlockEnd(ls, p + 1)

\* the cursor once the loop of lines 122-125 has read the terminator line
AfterBlockKeep(ls, pend) == pend

AfterBlock(ls, pend) == Adv(ls, pend)

\* The result of one call with the cursor at p:
\*   [st |-> "ok", df |-> frame, pos |-> cursor]  or  [st |-> <exception>]
read_profiler_data_block(ls, p) ==
    LET p3   == IF Toks(ls, p) = <<>> THEN AdvN(ls, p, 2) ELSE AdvN(ls, p, 1)
        tag  == Toks(ls, p3)                                   \* Line 3
        p5   == AdvN(ls, p3, 2)
        date == Toks(ls, p5)                                   \* Line 5
        p11  == AdvN(ls, p5, 6)                                \* Lines 6-10 read
        hdr  == Dedup(Toks(ls, p11))
        p12  == AdvN(ls, p11, 1)
        pend == BlockEnd(ls, p12)
        block == [r \in 1..(pend - p12) |-> ls[p12 + r - 1]]
    IN  IF tag = <<>> THEN [st |-> "IndexError"]
        ELSE IF ~(Len(tag[1]) = 1 /\ tag[1][1] \in datatypes)
        THEN [st |-> "AssertionError"]
        ELSE IF Len(date) # 7 \/ \E k \in 1..6 : ~IsInt(date[k])
        THEN [st |-> "ValueError"]
        ELSE With(<<hdr, block, pend>>, LAMBDA v :
                 IF ~FrameOK(v[2], v[1]) THEN [st |-> "ValueError"]
                 ELSE [st |-> "ok",
                       df |-> DataFrame(v[2], v[1], to_datetime(date)),
                       pos |-> AfterBlock(ls, v[3])])

(***************************************************************************)
(* pd.concat(dataframes), lines 157, 239, 294: outer join on the columns,  *)
(* rows in the order of the list.  The result's column order depends on    *)
(* the pandas version; the model keeps the order of first appearance.      *)
(***************************************************************************)
RECURSIVE AddCols(_, _)
AddCols(cols, more) ==
    IF more = <<>> THEN cols
    ELSE AddCols(IF Head(more) \in Range(cols) THEN cols ELSE Append(cols, Head(more)),
                 Tail(more))

RECURSIVE ConcatCols(_)
ConcatCols(frames) ==
    IF frames = <<>> THEN <<>>
    ELSE AddCols(ConcatCols(SubSeq(frames, 1, Len(frames) - 1)),
                 frames[Len(frames)].cols)

IndexOf(lst, x) == CHOOSE i \in DOMAIN lst : lst[i] = x

\* the rows of one frame laid out on the columns cols
Reindex(frame, cols) ==
    [r \in DOMAIN frame.rows |->
        [dt |-> frame.rows[r].dt,
         c  |-> [k \in DOMAIN cols |->
                    IF cols[k] \in Range(frame.cols)
                    THEN frame.rows[r].c[IndexOf(frame.cols, cols[k])]
                    ELSE NaN]]]

\* insertion of a row into rows sorted by timestamp
RECURSIVE InsertByTime(_, _)
InsertByTime(rows, row) ==
    IF rows = <<>> THEN <<row>>
    ELSE IF row.dt < Head(rows).dt THEN <<row>> \o rows
    ELSE <<Head(rows)>> \o InsertByTime(Tail(rows), row)

RECURSIVE SortByTime(_)
SortByTime(rows) ==
    IF rows = <<>> THEN <<>>
    ELSE InsertByTime(SortByTime(SubSeq(rows, 1, Len(rows) - 1)), rows[Len(rows)])

\* a concatenation that also sorts the rows by timestamp
concat_sorted(frames) ==
    With(ConcatCols(frames), LAMBDA cols :
        [cols |-> cols,
         rows |-> SortByTime(Flatten([b \in DOMAIN frames |-> Reindex(frames[b], cols)]))])

concat(frames) ==
    With(ConcatCols(frames), LAMBDA cols :
        [cols |-> cols,
         rows |-> Flatten([b \in DOMAIN frames |-> Reindex(frames[b], cols)])])

(***************************************************************************)
(* radar_profiler, lines 158-178: sentinel masking                         *)
(***************************************************************************)
\* the same step without the prefix rule
matches_exact(t, col) == IF col \in Range(t.cols) THEN <<col>> ELSE <<>>

\* lines 161-164: the columns one requested name selects
matches(t, col) ==
    IF col \in Range(t.cols) THEN <<col>>
    ELSE SelectSeq(t.cols, LAMBDA c : startswith_dot(c, col))

\* lines 159-169: nalist
RECURSIVE nalist(_, _)
nalist(t, req) ==
    IF req = <<>> THEN <<>> ELSE matches(t, Head(req)) \o nalist(t, Tail(req))

\* lines 167-168: the names reported as not found
notfound(t, req) == SelectSeq(req, LAMBDA col : matches(t, col) = <<>>)

\* lines 170-171
as_list(nav) == IF nav.kind = "scalar" THEN <<nav.v>> ELSE nav.v

\* line 177: df.loc[df[col]==val,col] = np.nan
mask_col(t, col, val) ==
    [t EXCEPT !.rows =
        [r \in DOMAIN t.rows |->
            [t.rows[r] EXCEPT !.c =
                [k \in DOMAIN t.cols |->
                    IF t.cols[k] = col /\ t.rows[r].c[k] = Num(val)
                    THEN NaN ELSE t.rows[r].c[k]]]]]

\* lines 176-177: for col in check_na
RECURSIVE mask_cols(_, _, _)
mask_cols(t, cols, val) ==
    IF cols = <<>> THEN t
    ELSE With(mask_col(t, Head(cols), val), LAMBDA u : mask_cols(u, Tail(cols), val))

\* lines 173-177: for val in na_values
RECURSIVE mask_vals(_, _, _)
mask_vals(t, cols, vals) ==
    IF vals = <<>> THEN t
    ELSE With(mask_cols(t, cols, Head(vals)), LAMBDA u : mask_vals(u, cols, Tail(vals)))

(***************************************************************************)
(* Bounds of the model                                                     *)
(***************************************************************************)
MaxHdr == 3        \* tokens of a raw header handed to the deduplication step
MaxBlocks == 2     \* blocks written to a profiler file
MaxRows == 2       \* data rows of a WINDS block (a RASS block has one less)
MaxModes == 2      \* largest fixed block count asked of radar_profiler
MaxComp == 2       \* largest magnitude of a wind component
MaxT == 2          \* rows of the wide table of windcube_v1
MaxK == 2          \* levels of windcube_v1

(***************************************************************************)
(* Consensus files (the input of radar_profiler).  A file is written from  *)
(* a list of blocks; a block is [lead, tag, bad]:                          *)
(*   lead  the block starts with the blank Line 1 before the station line, *)
(*   tag   first token of Line 3; "" writes a blank Line 3 and "absent"    *)
(*         leaves Line 3 out,                                              *)
(*   bad   index of the data row whose cells hold the sentinel (0: none).  *)
(* WINDS blocks repeat the RAD column, RASS blocks carry it once.           *)
(***************************************************************************)
SPD == <<"SPD">>
DIR == <<"DIR">>
RAD == <<"RAD">>
Sentinel == "999999"

RawHeader(tag) == IF tag = "RASS" THEN <<SPD, RAD>> ELSE <<SPD, RAD, RAD>>
Minute(tag) == IF tag = "RASS" THEN "10" ELSE "20"
NRows(tag) == IF tag = "RASS" THEN MaxRows - 1 ELSE MaxRows

DataRow(b, j) ==
    [k \in DOMAIN RawHeader(b.tag) |-> IF j = b.bad THEN <<Sentinel>> ELSE <<str(j)>>]

BlockLines(b, dollar) ==
       (IF b.lead THEN << <<>> >> ELSE <<>>)
    \o << << <<"STN">> >> >>                                      \* Line 2
    \o (IF b.tag = "absent" THEN <<>>
        ELSE IF b.tag = "" THEN << <<>> >>
        ELSE << << <<b.tag>>, <<"rev5", "1">> >> >>)            \* Line 3
    \o << << <<"45">>, <<"120">>, <<"10">> >> >>                  \* Line 4
    \o << << <<"17">>, <<"01">>, <<"01">>, <<"00">>,
             <<Minute(b.tag)>>, <<"00">>, <<"0">> >> >>         \* Line 5
    \o [i \in 1..5 |-> << <<"24">> >>]                            \* Lines 6-10
    \o <<RawHeader(b.tag)>>
    \o [j \in 1..NRows(b.tag) |-> DataRow(b, j)]
    \o (IF dollar THEN << << <<"$">> >> >> ELSE <<>>)

\* the file written from the blocks bs; the last block ends with '$' iff lastDollar
FileOf(bs, lastDollar) ==
    Flatten([i \in DOMAIN bs |-> BlockLines(bs[i], i < Len(bs) \/ lastDollar)])

\* the cursor at which block i of the file ls written from bs starts
\* (i = Len(bs) + 1: the end of the stream)
BlockStart(bs, ls, i) ==
    IF i > Len(bs) THEN Len(ls) + 1 ELSE Len(FileOf(SubSeq(bs, 1, i - 1), TRUE)) + 1

\* the frame a well-formed block holds: its rows in file order
BlockFrame(b) ==
    [cols |-> Dedup(RawHeader(b.tag)),
     rows |-> [j \in 1..NRows(b.tag) |->
                 [dt |-> to_datetime(<< <<"17">>, <<"01">>, <<"01">>, <<"00">>,
                                        <<Minute(b.tag)>>, <<"00">> >>),
                  c  |-> [k \in DOMAIN RawHeader(b.tag) |->
                            Num(IntOf(DataRow(b, j)[k][1]))]]]]

GoodTags == {"WINDS", "RASS"}
BadTags == {"OTHER", "", "absent"}
WellFormed(b) == b.tag \in GoodTags

StructPool ==
    [lead : BOOLEAN, tag : GoodTags, bad : {0}] \cup [lead : {TRUE}, tag : BadTags, bad : {0}]
MaskPool ==
    {b \in [lead : {TRUE}, tag : GoodTags, bad : 0..MaxRows] : b.bad <= NRows(b.tag)}

NaNone == [kind |-> "None"]
NaScalar(v) == [kind |-> "scalar", v |-> v]
NaList(l) == [kind |-> "list", v |-> l]

DefaultCheckNa == <<SPD, DIR>>                 \* line 132
DefaultNaValues == NaScalar(999999)            \* line 133
CheckPool == {<<RAD>>, <<SPD, RAD>>, <<DIR, RAD>>, <<>>}
NaPool == {NaNone, NaList(<<999999>>), NaList(<<1, 999999>>)}

(***************************************************************************)
(* The deduplication step on its own                                       *)
(***************************************************************************)
TokPool == {<<"A">>, <<"B">>, <<"A", "0">>, <<"A", "1">>}

InitDedup ==
    /\ reader = "dedup" /\ pc = "raw" /\ err = ""
    /\ raw \in SeqsUpTo(TokPool, MaxHdr)
    /\ header = <<>> /\ header2 = <<>>
    /\ blocks = <<>> /\ lines = <<>> /\ pos = 1
    /\ modes = None /\ check_na = <<>> /\ na_values = NaNone /\ notes = <<>>
    /\ dataframes = <<>> /\ nread = 0 /\ df = None /\ stitched = None
    /\ scan = None
    /\ wide = <<>> /\ altitudes = <<>> /\ newdf = None

Resolve ==
    /\ reader = "dedup" /\ pc = "raw"
    /\ header' = Dedup(raw)
    /\ pc' = "resolved"
    /\ UNCHANGED <<reader, err, raw, header2, fileVars, radarVars, frameVars, scan,
                   lidarVars>>

ResolveAgain ==
    /\ reader = "dedup" /\ pc = "resolved"
    /\ header2' = Dedup(header)
    /\ pc' = "again"
    /\ UNCHANGED <<reader, err, raw, header, fileVars, radarVars, frameVars, scan,
                   lidarVars>>

NextDedup == Resolve \/ ResolveAgain

SpecDedup == InitDedup /\ [][NextDedup]_vars

(***************************************************************************)
(* radar_profiler, lines 146-178                                           *)
(***************************************************************************)
InitRadar ==
    /\ reader = "radar" /\ pc = "loop" /\ err = ""
    /\ raw = <<>> /\ header = <<>> /\ header2 = <<>>
    /\ \/ \E bs \in SeqsUpTo(StructPool, MaxBlocks), ld \in BOOLEAN,
             m \in {None} \cup {Some(n) : n \in 0..MaxModes} :
             /\ blocks = bs /\ lines = FileOf(bs, ld) /\ modes = m
             /\ check_na = DefaultCheckNa /\ na_values = DefaultNaValues
       \/ \E bs \in SeqsUpTo(MaskPool, MaxBlocks), cn \in CheckPool, nv \in NaPool :
             /\ blocks = bs /\ lines = FileOf(bs, TRUE) /\ modes = None
             /\ check_na = cn /\ na_values = nv
    /\ pos = 1 /\ notes = <<>>
    /\ dataframes = <<>> /\ nread = 0 /\ df = None /\ stitched = None
    /\ scan = None
    /\ wide = <<>> /\ altitudes = <<>> /\ newdf = None

Raise(e) == pc' = "raised" /\ err' = e

\* lines 149-150: for _ in range(modes)
RadarLoopFixed ==
    /\ reader = "radar" /\ pc = "loop" /\ modes # None
    /\ IF nread < modes[1]
       THEN \E r \in {read_profiler_data_block(lines, pos)} :
                IF r.st = "ok"
                THEN /\ dataframes' = Append(dataframes, r.df)
                     /\ pos' = r.pos /\ nread' = nread + 1
                     /\ UNCHANGED <<pc, err>>
                ELSE /\ Raise(r.st)
                     /\ UNCHANGED <<dataframes, pos, nread>>
       ELSE /\ pc' = "concat"
            /\ UNCHANGED <<err, dataframes, pos, nread>>
    /\ UNCHANGED <<reader, dedupVars, blocks, lines, radarVars, df, stitched, scan,
                   lidarVars>>

\* lines 152-156: while True / except (IOError,IndexError): break
RadarLoopUntilEnd ==
    /\ reader = "radar" /\ pc = "loop" /\ modes = None
    /\ \E r \in {read_profiler_data_block(lines, pos)} :
           IF r.st = "ok"
           THEN /\ dataframes' = Append(dataframes, r.df)
                /\ pos' = r.pos /\ nread' = nread + 1
                /\ UNCHANGED <<pc, err>>
           ELSE IF r.st \in {"IOError", "IndexError"}
           THEN /\ pc' = "concat"
                /\ UNCHANGED <<err, dataframes, pos, nread>>
           ELSE /\ Raise(r.st)
                /\ UNCHANGED <<dataframes, pos, nread>>
    /\ UNCHANGED <<reader, dedupVars, blocks, lines, radarVars, df, stitched, scan,
                   lidarVars>>

\* line 157; pd.concat of an empty list raises ValueError
RadarConcat ==
    /\ reader = "radar" /\ pc = "concat"
    /\ IF dataframes = <<>>
       THEN Raise("ValueError") /\ UNCHANGED <<df, stitched>>
       ELSE /\ \E t \in {concat(dataframes)} : df' = Some(t) /\ stitched' = Some(t)
            /\ pc' = "mask"
            /\ UNCHANGED err
    /\ UNCHANGED <<reader, dedupVars, fileVars, radarVars, dataframes, nread, scan,
                   lidarVars>>

\* lines 158-178
RadarMask ==
    /\ reader = "radar" /\ pc = "mask"
    /\ IF na_values.kind = "None"
       THEN UNCHANGED <<df, notes>>
       ELSE /\ \E cols \in {nalist(df[1], check_na)} :
                  df' = Some(mask_vals(df[1], cols, as_list(na_values)))
            /\ notes' = notfound(df[1], check_na)
    /\ pc' = "returned"
    /\ UNCHANGED <<reader, err, dedupVars, fileVars, modes, check_na, na_values,
                   dataframes, nread, stitched, scan, lidarVars>>

NextRadar == RadarLoopFixed \/ RadarLoopUntilEnd \/ RadarConcat \/ RadarMask

SpecRadar == InitRadar /\ [][NextRadar]_vars

\* read-until-stream-end mode on files of n >= 1 well-formed blocks
InitRadarUntilEnd ==
    /\ reader = "radar" /\ pc = "loop" /\ err = ""
    /\ raw = <<>> /\ header = <<>> /\ header2 = <<>>
    /\ \E bs \in SeqsUpTo([lead : BOOLEAN, tag : GoodTags, bad : {0}], MaxBlocks),
          ld \in BOOLEAN :
          /\ bs # <<>>
          /\ blocks = bs /\ lines = FileOf(bs, ld)
    /\ modes = None /\ check_na = DefaultCheckNa /\ na_values = DefaultNaValues
    /\ pos = 1 /\ notes = <<>>
    /\ dataframes = <<>> /\ nread = 0 /\ df = None /\ stitched = None
    /\ scan = None
    /\ wide = <<>> /\ altitudes = <<>> /\ newdf = None

NextRadarUntilEnd == RadarLoopUntilEnd \/ RadarConcat \/ RadarMask

\* the reader is sequential code: it keeps running until it returns or raises
SpecRadarUntilEnd ==
    InitRadarUntilEnd /\ [][NextRadarUntilEnd]_vars /\ WF_vars(NextRadarUntilEnd)

(***************************************************************************)
(* scintec_profiler, lines 251-298                                         *)
(***************************************************************************)
\* 'YYYY-MM-DD' and 'HH:MM:SS' literals of the files, in minutes
DayOf(part) == IF part = "2017-01-01" THEN 0 ELSE -1
MinOf(part) ==
    CASE part = "00:10:00" -> 10
      [] part = "00:20:00" -> 20
      [] part = "00:30:00" -> 30
      [] OTHER -> -1

IsDate(tok) == Len(tok) = 1 /\ DayOf(tok[1]) >= 0
IsTime(tok) == Len(tok) = 1 /\ MinOf(tok[1]) >= 0

\* pd.to_datetime(date + ' ' + time), in minutes
to_datetime2(d, t) == DayOf(d[1]) * 1440 + MinOf(t[1])

\* line.strip().split('#'): the fields between the '#' tokens
RECURSIVE SplitHash(_)
SplitHash(toks) ==
    IF \A i \in DOMAIN toks : toks[i] # <<"#">> THEN <<toks>>
    ELSE LET i == CHOOSE i \in DOMAIN toks :
                     toks[i] = <<"#">> /\ \A j \in 1..(i - 1) : toks[j] # <<"#">>
         IN  <<SubSeq(toks, 1, i - 1)>> \o SplitHash(SubSeq(toks, i + 1, Len(toks)))

\* defn[0].strip(): the words of the field as one name
RECURSIVE Join(_)
Join(field) ==
    IF field = <<>> THEN <<>>
    ELSE IF Len(field) = 1 THEN field[1]
    ELSE field[1] \o <<" ">> \o Join(Tail(field))

\* lines 267-273: (columns, na_values) of the definition lines p .. p+n-1
RECURSIVE Definitions(_, _, _)
Definitions(ls, p, n) ==
    IF n = 0 THEN [columns |-> <<>>, na_values |-> <<>>]
    ELSE LET defn == SplitHash(Toks(ls, p))
             col  == Join(defn[1])
             last == defn[Len(defn)]
             rest == Definitions(ls, Adv(ls, p), n - 1)
         IN  [columns |-> <<col>> \o rest.columns,
              na_values |-> (IF Len(last) = 1 /\ IsFloat(last[1])
                             THEN << <<col, Float(last[1])>> >> ELSE <<>>)
                            \o rest.na_values]

\* lines 253-276: [st |-> "ok", scan |-> ..., pos |-> cursor] or an exception
scintec_header(ls) ==
    LET dateline  == Toks(ls, 2)
        number_of == Toks(ls, 4)
        Ncomments == IntOf(number_of[1][1])
        Nvar      == IntOf(number_of[2][1])
        Nz        == IntOf(number_of[3][1])
        pmain     == AdvN(ls, 1, 11 + Ncomments)
        pdefs     == AdvN(ls, pmain, 4)
        defs      == Definitions(ls, pdefs, Nvar + 1)
    IN  IF Len(dateline) < 2 \/ ~IsDate(dateline[1]) \/ ~IsTime(dateline[2])
        THEN [st |-> "ValueError"]
        ELSE IF Len(number_of) # 3 \/ \E k \in 1..3 : ~IsInt(number_of[k])
        THEN [st |-> "ValueError"]
        ELSE IF Toks(ls, pmain) # << <<"Main">>, <<"Data">> >>
        THEN [st |-> "AssertionError"]
        ELSE [st |-> "ok",
              scan |-> [columns |-> defs.columns, na_values |-> defs.na_values,
                        Nz |-> Nz,
                        datetime0 |-> to_datetime2(dateline[1], dateline[2]),
                        firstread |-> TRUE],
              pos |-> AdvN(ls, pdefs, Nvar + 1 + 4)]

\* pd.DataFrame(data=data, columns=columns): cells stay text, short rows are
\* padded, the longest row must be as long as the column list
TextFrameOK(data, columns) == data # <<>> => MaxLen(data) = Len(columns)

TextFrame(data, columns, date_time) ==
    [cols |-> columns,
     rows |-> [r \in DOMAIN data |->
                 [dt |-> date_time,
                  c  |-> [k \in DOMAIN columns |->
                            IF k <= Len(data[r]) THEN Str(data[r][k]) ELSE NaN]]]]

\* line 295: pd.to_numeric(df['height'])
HEIGHT == <<"height">>

to_numeric_ok(t) ==
    \A r \in DOMAIN t.rows : \A k \in DOMAIN t.cols :
        (t.cols[k] = HEIGHT /\ t.rows[r].c[k] # NaN) => IsFloat(t.rows[r].c[k].s)

to_numeric(t) ==
    [t EXCEPT !.rows =
        [r \in DOMAIN t.rows |->
            [t.rows[r] EXCEPT !.c =
                [k \in DOMAIN t.cols |->
                    IF t.cols[k] = HEIGHT /\ t.rows[r].c[k] # NaN
                    THEN Num(Float(t.rows[r].c[k].s)) ELSE t.rows[r].c[k]]]]]

\* lines 296-297: for col,nan in na_values.items(); a text cell never equals
\* the float nan value, so mask_col changes numeric columns only
RECURSIVE mask_items(_, _)
mask_items(t, items) ==
    IF items = <<>> THEN t
    ELSE With(mask_col(t, Head(items)[1], Head(items)[2]),
              LAMBDA u : mask_items(u, Tail(items)))

(***************************************************************************)
(* APRun files (the input of scintec_profiler): a well-formed header that  *)
(* declares Nz levels, np profiles of Nz rows, and the stream cut short by *)
(* `cut` lines.                                                            *)
(***************************************************************************)
SPEED == <<"speed">>
TimeLit == <<"00:10:00", "00:20:00", "00:30:00", "00:30:00">>

ScintecHead(Nz) ==
    << << <<"FORMAT-1">> >>,
       << <<"2017-01-01">>, <<"00:10:00">>, <<"1">> >>,
       << <<"MFAS">> >>,
       << <<"1">>, <<"1">>, <<str(Nz)>> >>,
       <<>>,
       << <<"#">>, <<"File">>, <<"Information">> >>, <<>>, <<>>,
       << <<"comment">> >>,
       <<>>, << <<"#">>, <<"File">>, <<"Type">> >>, <<>>,
       << <<"Main">>, <<"Data">> >>,
       <<>>, << <<"#">>, <<"Variable">>, <<"Definitions">> >>, <<>>,
       << HEIGHT, <<"#">>, <<"z">>, <<"#">>, <<"m">>, <<"#">>, <<"Z1">>, <<"#">>,
          <<"0">>, <<"#">> >>,
       << <<"wind">>, SPEED, <<"#">>, SPEED, <<"#">>, <<"m/s">>, <<"#">>, <<"G1">>,
          <<"#">>, <<"0">>, <<"#">>, <<Sentinel>> >>,
       <<>>, << <<"#">>, <<"Beginning">>, <<"of">>, <<"Data">>, <<"Block">> >>, <<>>,
       <<>> >>

ScintecProfileLines(Nz, q) ==
       << << <<"2017-01-01">>, <<TimeLit[q]>>, <<"00:10:00">> >> >>
    \o << << <<"#">>, <<"z">>, SPEED >> >>
    \o [j \in 1..Nz |-> << <<str(j)>>, <<IF j = 1 THEN Sentinel ELSE "1">> >>]
    \o << <<>> >>

ScintecBody(Nz, np) == Flatten([q \in 1..np |-> ScintecProfileLines(Nz, q)])

\* the number of lines of the last profile that the cut stream still holds
KeptOfLast(b) ==
    IF b.np = 0 THEN 0
    ELSE LET kept == b.np * (b.Nz + 3) - b.cut
         IN  kept - ((kept - 1) \div (b.Nz + 3)) * (b.Nz + 3)

\* the stream ends inside a block: its timestamp line is there, but fewer than
\* Nz data rows follow it
Truncated(b) == b.np > 0 /\ b.cut > 0 /\ KeptOfLast(b) >= 1 /\ KeptOfLast(b) <= b.Nz + 1

InitSodar ==
    /\ err = ""
    /\ raw = <<>> /\ header = <<>> /\ header2 = <<>>
    /\ \/ /\ reader = "scintec" /\ pc = "header"
          /\ \E Nz \in 1..MaxRows, np \in 0..MaxBlocks :
               \E cut \in 0..(np * (Nz + 3)) :
                 /\ blocks = [Nz |-> Nz, np |-> np, cut |-> cut]
                 /\ lines = ScintecHead(Nz)
                            \o SubSeq(ScintecBody(Nz, np), 1, np * (Nz + 3) - cut)
       \/ /\ reader = "ARL" /\ pc = "call"
          /\ blocks = <<>> /\ lines = <<>>
    /\ pos = 1
    /\ modes = None /\ check_na = <<>> /\ na_values = NaNone /\ notes = <<>>
    /\ dataframes = <<>> /\ nread = 0 /\ df = None /\ stitched = None
    /\ scan = None
    /\ wide = <<>> /\ altitudes = <<>> /\ newdf = None

\* lines 252-276
ScintecHeader ==
    /\ reader = "scintec" /\ pc = "header"
    /\ LET r == scintec_header(lines)
       IN  IF r.st = "ok"
           THEN /\ scan' = Some(r.scan) /\ pos' = r.pos /\ pc' = "profiles"
                /\ UNCHANGED err
           ELSE /\ Raise(r.st)
                /\ UNCHANGED <<scan, pos>>
    /\ UNCHANGED <<reader, dedupVars, blocks, lines, radarVars, frameVars, lidarVars>>

\* lines 278-293: one pass of the while loop
ScintecProfile ==
    /\ reader = "scintec" /\ pc = "profiles"
    /\ LET timedata == Toks(lines, pos)
           sc       == scan[1]
           pdata    == AdvN(lines, pos, 2)
           data     == [j \in 1..sc.Nz |-> Toks(lines, pdata + j - 1)]
       IN  IF Len(timedata) < 3
           THEN /\ pc' = "concat"
                /\ pos' = Adv(lines, pos)
                /\ UNCHANGED <<err, scan, dataframes, nread>>
           ELSE IF ~IsDate(timedata[1]) \/ ~IsTime(timedata[2]) \/ ~IsTime(timedata[3])
           THEN /\ Raise("ValueError")
                /\ UNCHANGED <<pos, scan, dataframes, nread>>
           ELSE IF sc.firstread /\ to_datetime2(timedata[1], timedata[2]) # sc.datetime0
           THEN /\ Raise("AssertionError")
                /\ UNCHANGED <<pos, scan, dataframes, nread>>
           ELSE IF ~TextFrameOK(data, sc.columns)
           THEN /\ Raise("ValueError")
                /\ UNCHANGED <<pos, scan, dataframes, nread>>
           ELSE /\ dataframes' =
                      Append(dataframes,
                             TextFrame(data, sc.columns,
                                       to_datetime2(timedata[1], timedata[2])
                                         - MinOf(timedata[3][1])))
                /\ nread' = nread + 1
                /\ scan' = Some([sc EXCEPT !.firstread = FALSE])
                /\ pos' = AdvN(lines, pdata, sc.Nz + 1)
                /\ UNCHANGED <<pc, err>>
    /\ UNCHANGED <<reader, dedupVars, blocks, lines, radarVars, df, stitched, lidarVars>>

\* lines 294-298
ScintecFinish ==
    /\ reader = "scintec" /\ pc = "concat"
    /\ IF dataframes = <<>> THEN Raise("ValueError") /\ UNCHANGED <<df, stitched>>
       ELSE \E t \in {concat(dataframes)} :
              IF HEIGHT \notin Range(t.cols)
              THEN Raise("KeyError") /\ UNCHANGED <<df, stitched>>
              ELSE IF ~to_numeric_ok(t)
              THEN Raise("ValueError") /\ UNCHANGED <<df, stitched>>
              ELSE /\ stitched' = Some(t)
                   /\ \E u \in {to_numeric(t)} :
                         df' = Some(mask_items(u, scan[1].na_values))
                   /\ pc' = "returned"
                   /\ UNCHANGED err
    /\ UNCHANGED <<reader, dedupVars, fileVars, radarVars, dataframes, nread, scan,
                   lidarVars>>

(***************************************************************************)
(* ARL_wind_profiler, lines 221-239.  Line 222 reads the global range_gates *)
(* and line 232 the global header; the module defines neither (it defines  *)
(* PCSodar_header), so the call raises NameError before the file is opened. *)
(***************************************************************************)
ARL_wind_profiler ==
    /\ reader = "ARL" /\ pc = "call"
    /\ Raise("NameError")
    /\ UNCHANGED <<reader, dedupVars, fileVars, radarVars, frameVars, scan, lidarVars>>

NextSodar == ScintecHeader \/ ScintecProfile \/ ScintecFinish \/ ARL_wind_profiler

SpecSodar == InitSodar /\ [][NextSodar]_vars

\* the block readers together: radar_profiler, scintec_profiler, ARL_wind_profiler
InitReaders == InitRadar \/ InitSodar

NextReaders == NextRadar \/ NextSodar

SpecReaders == InitReaders /\ [][NextReaders]_vars

(***************************************************************************)
(* windcube_v1, lines 76-91.  A wind component is <<sign, magnitude>>, so  *)
(* that the float -0.0 is <<-1, 0>>.  Angles are in thousandths of a       *)
(* degree, speeds in thousandths of the component unit, both rounded.      *)
(***************************************************************************)
Comp == {-1, 1} \X (0..MaxComp)
Value(x) == x[1] * x[2]

\* atan(a/b) for 0 <= a, b <= 3, not both 0
AtanTable(a, b) ==
    CASE a = 0 -> 0
      [] b = 0 -> 90000
      [] a = b -> 45000
      [] a = 1 /\ b = 2 -> 26565
      [] a = 2 /\ b = 1 -> 63435
      [] a = 1 /\ b = 3 -> 18435
      [] a = 3 /\ b = 1 -> 71565
      [] a = 2 /\ b = 3 -> 33690
      [] a = 3 /\ b = 2 -> 56310

\* 180.0/np.pi*np.arctan2(y, x): IEEE atan2 with signed zeros
arctan2deg(y, x) ==
    LET a == AtanTable(y[2], x[2])
    IN  y[1] * (IF x[1] > 0 THEN a ELSE 180000 - a)

\* floor(sqrt(n)); n an integer
isqrt(n) == CHOOSE r \in 0..(1500 * (MaxComp + 1)) : r * r <= n /\ n < (r + 1) * (r + 1)

\* line 86
speed(um, vm) == isqrt(1000000 * (Value(um) * Value(um) + Value(vm) * Value(vm)))

\* line 88 with >= in place of >
wrap_ge(d) == IF d >= 360000 THEN d - 360000 ELSE d

\* line 88: newdf.loc[newdf['direction'] > 360.0,'direction'] -= 360.0
wrap(d) == IF d > 360000 THEN d - 360000 ELSE d

\* lines 87-88
direction(um, vm) == wrap(270000 - arctan2deg(vm, um))

\* lines 79-82: pd.melt of the component columns comp1..compk, then the height
\* of each variable; one row per (variable, input row), variables first.
\* `row` is the index of the input row: pd.melt does not keep it.
melt(w, heights, comp) ==
    Flatten([i \in DOMAIN heights |->
               [r \in DOMAIN w |->
                  [date_time |-> w[r].date_time, var |-> i, value |-> w[r][comp][i],
                   height |-> heights[i], row |-> r]]])

\* line 83: pd.merge(um, vm, on=['date_time','height']), an inner join:
\* every pair of a um row and a vm row with equal keys
merge(um, vm) ==
    Flatten([a \in DOMAIN um |->
               SelectSeq([b \in DOMAIN vm |->
                            [date_time |-> um[a].date_time, height |-> um[a].height,
                             um_var |-> um[a].var, um |-> um[a].value,
                             vm_var |-> vm[b].var, vm |-> vm[b].value,
                             um_row |-> um[a].row, vm_row |-> vm[b].row,
                             keys |-> (um[a].date_time = vm[b].date_time
                                       /\ um[a].height = vm[b].height)]],
                         LAMBDA m : m.keys)])

\* lines 76-91; line 91 keeps date_time, height, speed and direction, the
\* other fields are kept here to state the pairing
reshape(w, heights) ==
    LET merged == merge(melt(w, heights, "um"), melt(w, heights, "vm"))
    IN  [q \in DOMAIN merged |->
            [date_time |-> merged[q].date_time, height |-> merged[q].height,
             speed |-> speed(merged[q].um, merged[q].vm),
             direction |-> direction(merged[q].um, merged[q].vm),
             um |-> merged[q].um, vm |-> merged[q].vm,
             um_var |-> merged[q].um_var, vm_var |-> merged[q].vm_var,
             um_row |-> merged[q].um_row, vm_row |-> merged[q].vm_row]]

HeightPool == {40, 80}

\* the state after pd.read_table (line 74): the wide table and the altitudes.
\* Either one row at one level with any pair of components, or up to MaxT rows
\* at up to MaxK levels, timestamps and heights possibly repeated.
InitLidar ==
    /\ reader = "windcube" /\ pc = "read" /\ err = ""
    /\ raw = <<>> /\ header = <<>> /\ header2 = <<>>
    /\ blocks = <<>> /\ lines = <<>> /\ pos = 1
    /\ modes = None /\ check_na = <<>> /\ na_values = NaNone /\ notes = <<>>
    /\ dataframes = <<>> /\ nread = 0 /\ df = None /\ stitched = None
    /\ scan = None
    /\ \/ \E u \in Comp, v \in Comp :
             /\ wide = << [date_time |-> 1, um |-> <<u>>, vm |-> <<v>>] >>
             /\ altitudes = <<40>>
       \/ \E T \in 0..MaxT, k \in 0..MaxK :
             \E ts \in [1..T -> 1..MaxT], hs \in [1..k -> HeightPool] :
                /\ wide = [r \in 1..T |->
                             [date_time |-> ts[r],
                              um |-> [i \in 1..k |-> <<1, r % (MaxComp + 1)>>],
                              vm |-> [i \in 1..k |-> <<-1, i % (MaxComp + 1)>>]]]
                /\ altitudes = hs
    /\ newdf = None

windcube_v1 ==
    /\ reader = "windcube" /\ pc = "read"
    /\ newdf' = Some(reshape(wide, altitudes))
    /\ pc' = "returned"
    /\ UNCHANGED <<reader, err, dedupVars, fileVars, radarVars, frameVars, scan, wide,
                   altitudes>>

NextLidar == windcube_v1

SpecLidar == InitLidar /\ [][NextLidar]_vars

(***************************************************************************)
(* Properties: schema deduplication                                        *)
(***************************************************************************)
Repeated(i) == count(raw, raw[i]) > 1
Earlier(i) == Cardinality({j \in 1..(i - 1) : raw[j] = raw[i]})

\* C4 as stated: the first occurrence of a repeated name keeps its name, the
\* i-th occurrence beyond the first (i >= 1) becomes '<name>.<i>'.
C4_FirstOccurrenceKept ==
    (reader = "dedup" /\ pc # "raw") =>
        \A i \in DOMAIN raw :
            Repeated(i) =>
                header[i] = IF Earlier(i) = 0 THEN raw[i]
                            ELSE Append(raw[i], str(Earlier(i)))

\* C4 amended: every occurrence of a repeated name is suffixed, the first one
\* included: the occurrence with i earlier occurrences (i >= 0) becomes
\* '<name>.<i>', so the first becomes '<name>.0'; a name that occurs once is
\* left as it is, and the schema is as long as the raw header.
C4_EveryOccurrenceSuffixed ==
    (reader = "dedup" /\ pc # "raw") =>
        /\ Len(header) = Len(raw)
        /\ \A i \in DOMAIN raw :
              /\ Repeated(i) => header[i] = raw[i] \o <<str(Earlier(i))>>
              /\ ~Repeated(i) => header[i] = raw[i]

C4_Witness ==
    /\ reader = "dedup" /\ pc = "resolved"
    /\ raw = << <<"A">>, <<"B">>, <<"A">> >>
    /\ header = << <<"A", "0">>, <<"B">>, <<"A", "1">> >>

\* C5: the resolved schema has pairwise distinct names, and resolving it again
\* returns it unchanged.
C5_UniqueAndIdempotent ==
    (reader = "dedup" /\ pc = "again") => (Unique(header) /\ header2 = header)

(***************************************************************************)
(* Properties: radar_profiler                                              *)
(***************************************************************************)
RECURSIVE RowsBefore(_, _)
RowsBefore(frames, b) ==
    IF b <= 1 THEN 0 ELSE RowsBefore(frames, b - 1) + Len(frames[b - 1].rows)

\* t is the stitching of frames: rows block after block in list order and in
\* in-block order, columns the union, NaN where the row's block lacks the column
IsStitchOf(t, frames) ==
    /\ Range(t.cols) = UNION {Range(frames[b].cols) : b \in DOMAIN frames}
    /\ Len(t.rows) = RowsBefore(frames, Len(frames) + 1)
    /\ \A b \in DOMAIN frames : \A j \in DOMAIN frames[b].rows :
          LET row == t.rows[RowsBefore(frames, b) + j]
              src == frames[b].rows[j]
          IN  /\ row.dt = src.dt
              /\ \A k \in DOMAIN t.cols :
                    IF \E q \in DOMAIN frames[b].cols : frames[b].cols[q] = t.cols[k]
                    THEN \E q \in DOMAIN frames[b].cols :
                            frames[b].cols[q] = t.cols[k] /\ row.c[k] = src.c[q]
                    ELSE row.c[k] = NaN

\* C1: the Table pd.concat returns holds exactly the rows of the blocks read,
\* in block arrival order (the order of the blocks in the file) and in in-block
\* order, unsorted; its columns are the union of the blocks' columns; a cell is
\* NaN whenever its row's block lacks the column.
C1_StitchInArrivalOrder ==
    /\ (reader = "radar" /\ stitched # None) =>
          /\ nread <= Len(blocks)
          /\ dataframes = [b \in 1..nread |-> BlockFrame(blocks[b])]
          /\ IsStitchOf(stitched[1], dataframes)
    /\ (reader = "scintec" /\ stitched # None) =>
          /\ \A b \in DOMAIN dataframes : \A r \in DOMAIN dataframes[b].rows :
                dataframes[b].rows[r].dt = MinOf(TimeLit[b]) - 10
          /\ IsStitchOf(stitched[1], dataframes)

C1_Witness ==
    /\ reader = "radar" /\ stitched # None
    /\ Len(dataframes) = 2
    /\ dataframes[1].cols # dataframes[2].cols
    /\ Len(dataframes[1].rows) = 2
    /\ dataframes[1].rows[1].dt > dataframes[2].rows[1].dt
    /\ \E r \in DOMAIN stitched[1].rows : NaN \in Range(stitched[1].rows[r].c)

Sentinels == Range(as_list(na_values))

\* no cell of column k of the Table equals a sentinel
Clean(t, k) == \A r \in DOMAIN t.rows : \A v \in Sentinels : t.rows[r].c[k] # Num(v)

\* C3: after masking, for every requested name c no cell of column c or of a
\* variant column 'c.<i>' of the Table equals a sentinel.
C3_NoSentinelLeft ==
    (reader = "radar" /\ pc = "returned" /\ na_values.kind # "None") =>
        \A i \in DOMAIN check_na : \A k \in DOMAIN df[1].cols :
            (df[1].cols[k] = check_na[i] \/ startswith_dot(df[1].cols[k], check_na[i]))
                => Clean(df[1], k)

\* a block whose tag line is blank, missing or unrecognized is reached by the
\* driving loop: every block before it is well-formed and the loop asks for it
ReachedBadBlock ==
    \E i \in DOMAIN blocks :
        /\ ~WellFormed(blocks[i])
        /\ \A j \in 1..(i - 1) : WellFormed(blocks[j])
        /\ (modes = None \/ modes[1] >= i)

\* C7: when the loop reaches a block with a bad tag line, radar_profiler fails
\* and returns no Table, in both driving modes.
C7_BadTagAborts ==
    (reader = "radar" /\ ReachedBadBlock) => (pc # "returned" /\ df = None)

\* C9: with masking requested, every requested name either selects columns of
\* the Table (the column of that name, else its variants '<name>.<i>'), which
\* are then free of sentinels, or is reported and not an error; no exception
\* leaves radar_profiler once the Table exists.
C9_UnmatchedReported ==
    /\ (reader = "radar" /\ pc = "raised") => df = None
    /\ (reader = "radar" /\ pc = "returned") => err = ""
    /\ (reader = "radar" /\ pc = "returned" /\ na_values.kind # "None") =>
          \A i \in DOMAIN check_na :
              LET c == check_na[i]
                  t == df[1]
                  variants == {k \in DOMAIN t.cols : startswith_dot(t.cols[k], c)}
                  exact == {k \in DOMAIN t.cols : t.cols[k] = c}
              IN  IF exact = {} /\ variants = {}
                  THEN c \in Range(notes)
                  ELSE /\ c \notin Range(notes)
                       /\ \A k \in (IF exact # {} THEN exact ELSE variants) : Clean(t, k)

C9_Witness ==
    /\ reader = "radar" /\ pc = "returned"
    /\ check_na = <<DIR, RAD>>
    /\ notes = <<DIR>>
    /\ \E k \in DOMAIN df[1].cols : \E r \in DOMAIN df[1].rows :
          /\ df[1].cols[k] = <<"RAD", "1">>
          /\ stitched[1].rows[r].c[k] = Num(999999)
          /\ df[1].rows[r].c[k] = NaN

\* C10: in read-until-stream-end mode on a file of n >= 1 well-formed blocks,
\* every call of the block reader leaves the cursor at the start of the next
\* block, the call fails only at the end of the stream, after n calls that
\* returned, the Table holds the rows of the n blocks and no others, and the
\* loop terminates: radar_profiler returns.
C10_Safe ==
    /\ reader = "radar" /\ modes = None
    /\ nread <= Len(blocks)
    /\ pos = BlockStart(blocks, lines, nread + 1)
    /\ pc # "raised"
    /\ pc # "loop" => nread = Len(blocks)
    /\ dataframes = [b \in 1..nread |-> BlockFrame(blocks[b])]
    /\ df # None => Len(df[1].rows) = RowsBefore(dataframes, Len(blocks) + 1)
    /\ stitched # None => IsStitchOf(stitched[1], dataframes)

C10_Returned == pc = "returned"

C10_UntilEndReadsAllBlocks == []C10_Safe /\ <>C10_Returned

C10_Witness ==
    /\ reader = "radar" /\ modes = None /\ pc = "returned"
    /\ Len(blocks) = 2 /\ nread = 2
    /\ Toks(lines, Len(lines)) # << <<"$">> >>
    /\ ~blocks[2].lead

(***************************************************************************)
(* Properties: fixed row count readers                                     *)
(***************************************************************************)
\* C8: when the stream ends before the declared number of rows of a block has
\* been supplied the reader fails; it never returns a Table with a block of
\* fewer than the declared rows or with rows made from reads past the end of
\* the stream.
C8_TruncationFails ==
    /\ (reader = "scintec" /\ Truncated(blocks)) => pc # "returned"
    /\ (reader = "scintec" /\ pc = "returned") =>
          \A b \in DOMAIN dataframes :
              /\ Len(dataframes[b].rows) = scan[1].Nz
              /\ \A r \in DOMAIN dataframes[b].rows :
                    NaN \notin Range(dataframes[b].rows[r].c)
    /\ reader = "ARL" => pc # "returned"

(***************************************************************************)
(* Properties: windcube_v1                                                 *)
(***************************************************************************)
\* C2: the long table holds exactly one row for each (input row, level); that
\* row pairs um_i with vm_i of the same input row and level at height[i];
\* there are no other rows (T*k in all), also when heights or timestamps repeat.
C2_OneRowPerRowAndLevel ==
    (reader = "windcube" /\ pc = "returned") =>
        /\ Len(newdf[1]) = Len(wide) * Len(altitudes)
        /\ \A q \in DOMAIN newdf[1] :
              /\ newdf[1][q].um_row = newdf[1][q].vm_row
              /\ newdf[1][q].um_var = newdf[1][q].vm_var
              /\ newdf[1][q].height = altitudes[newdf[1][q].um_var]
        /\ \A r \in DOMAIN wide : \A i \in DOMAIN altitudes :
              \E q \in DOMAIN newdf[1] :
                  newdf[1][q].um_row = r /\ newdf[1][q].um_var = i

\* C6: with theta = atan2(vm, um) in degrees, in [-180, 180], the direction is
\* 270 - theta when that is <= 360 and 270 - theta - 360 otherwise; it always
\* lies in (0, 360]; um=1, vm=0 gives 270 and um=0, vm=1 gives 180.
C6_DirectionRange ==
    (reader = "windcube" /\ pc = "returned") =>
        \A q \in DOMAIN newdf[1] :
            LET row == newdf[1][q]
                theta == arctan2deg(row.vm, row.um)
            IN  /\ theta >= -180000 /\ theta <= 180000
                /\ 270000 - theta <= 360000 => row.direction = 270000 - theta
                /\ 270000 - theta > 360000 => row.direction = 270000 - theta - 360000
                /\ row.direction > 0 /\ row.direction <= 360000
                /\ (row.um = <<1, 1>> /\ row.vm = <<1, 0>>) => row.direction = 270000
                /\ (row.um = <<1, 0>> /\ row.vm = <<1, 1>>) => row.direction = 180000

\* the largest raw value, 450, is reached (um = -1, vm = -0.0) and corrected once
C6_Witness ==
    /\ reader = "windcube" /\ pc = "returned"
    /\ \E q \in DOMAIN newdf[1] :
          /\ newdf[1][q].um = <<-1, 1>> /\ newdf[1][q].vm = <<-1, 0>>
          /\ newdf[1][q].direction = 90000

====
